---------------------------- MODULE Spec2Model ----------------------------
(***************************************************************************)
(* A model of the notebook Lab_Lec4_unsolved.ipynb: the photon counting    *)
(* loop, the three bootstrap cells (vectorised, explicit loop, parametric  *)
(* Poisson), the SDSS light-curve cleaning cells, the period fit with the  *)
(* phase folding and the folded plot, and the truncated Fourier fit.  A    *)
(* cell is a sequence of statements; pc is the position of                 *)
(* the kernel inside the cell that is running.  The variables carry the    *)
(* names of the notebook's Python variables.                               *)
(*                                                                         *)
(* Numbers.  Counts are naturals.  A float that numpy computes as a        *)
(* quotient is kept exact as the pair <<numerator, denominator>>; the      *)
(* pair <<0, 0>> is nan (numpy's mean of an empty row).  A standard        *)
(* deviation is kept as the exact radicand of its square root.  The fold   *)
(* cells round: their floats have FloatBits significand bits.              *)
(*                                                                         *)
(* Randomness.  np.random.choice and poisson.rvs read the global           *)
(* generator, which no bootstrap cell seeds: a draw is a nondeterministic  *)
(* choice over the support of the distribution.                            *)
(***************************************************************************)
EXTENDS Integers, Sequences, FiniteSets, TLC

VARIABLES
    pc,          \* position of the kernel: which statement runs next
    err,         \* the exception that stopped the running cell, or "none"
    times,       \* arrival times (photon cell) / light-curve times (SDSS cells)
    t_intvls,    \* the edges np.linspace returned
    n_events,    \* the Sample: photon counts per time interval
    i,           \* the loop variable of the running for loop
    M_samples,   \* number of bootstrap samples
    N_points,    \* number of points per bootstrap sample
    bs_np,       \* the non-parametric ResampleSet, a sequence of rows
    bs_dtype,    \* dtype of bs_np: "int64" (choice result) or "float64" (np.ones)
    sd_mean,     \* np.mean(bs_np, axis=1)
    sd_std,      \* np.std(bs_np, axis=1)
    bs_p,        \* the parametric ResampleSet
    sd_mean_p,   \* np.mean(bs_p, axis=1)
    sd_std_p,    \* np.std(bs_p, axis=1)
    df,          \* the light-curve table, a sequence of rows
    filters,     \* df.iloc[:,1].values
    mags,        \* df.iloc[:,2].values
    dmags,       \* df.iloc[:,3].values
    lc_file,     \* the rows of data/LC_1301781.dat
    period,      \* ls.best_period
    foldTimes,   \* the phases of times
    scatter,     \* the points plt.scatter drew, per filter
    y,           \* the RR Lyrae template
    kpos,        \* position in kvals of the running iteration of the fit loop
    y_fft,       \* the (truncated) transform of the current iteration
    y_fit        \* the reconstruction of the current iteration

vars == <<pc, err, times, t_intvls, n_events, i, M_samples, N_points, bs_np,
          bs_dtype, sd_mean, sd_std, bs_p, sd_mean_p, sd_std_p, df, filters,
          mags, dmags, lc_file, period, foldTimes, scatter, y, kpos, y_fft,
          y_fit>>

countVars == <<times, t_intvls>>
bootVars  == <<M_samples, N_points, bs_np, bs_dtype, sd_mean, sd_std>>
paramVars == <<bs_p, sd_mean_p, sd_std_p>>
foldVars  == <<period, foldTimes, scatter>>
sdssVars  == <<df, filters, mags, dmags, lc_file, foldVars>>
fftVars   == <<y, kpos, y_fft, y_fit>>

(***************************************************************************)
(* Bounds of the model.                                                    *)
(***************************************************************************)
\* significand bits of the floating-point format of the fold cells (float64
\* has 53)
FloatBits == 4
\* longest light curve handed to the fold cells
MaxFold == 2
\* longest Sample handed to a bootstrap cell
MaxN == 2
\* largest number of bootstrap samples tried (the notebook writes 10000)
MaxM == 2
\* largest photon count in a Sample
MaxCount == 2
\* largest value a Poisson draw takes in the model (the support is unbounded)
MaxDraw == 1
\* most photons selected by the mask, and the latest arrival time
MaxPhotons == 3
MaxTime == 3
\* most rows in the light-curve file
MaxRows == 3
\* longest RR Lyrae template
MaxTemplate == 18

(***************************************************************************)
(* Helpers on sequences.                                                   *)
(***************************************************************************)
Range(s) == {s[x] : x \in DOMAIN s}

RECURSIVE SeqSum(_)
SeqSum(s) == IF s = <<>> THEN 0 ELSE s[1] + SeqSum(Tail(s))

RECURSIVE SeqSumSq(_)
SeqSumSq(s) == IF s = <<>> THEN 0 ELSE s[1] * s[1] + SeqSumSq(Tail(s))

\* all sequences over S of length exactly n
SeqsOfLen(S, n) == [1..n -> S]

\* all sequences over S of length lo..hi
SeqsUpTo(S, lo, hi) == UNION {SeqsOfLen(S, n) : n \in lo..hi}

(***************************************************************************)
(* numpy reductions.                                                       *)
(***************************************************************************)
\* ndarray.mean() of a 1-d array: sum / length, nan (<<0, 0>>) when empty
NpMean(row) == <<SeqSum(row), Len(row)>>

\* np.std of a 1-d array is sqrt(mean(|x - mean|^2)); the radicand is
\* (n * sum(x^2) - sum(x)^2) / n^2, kept exact; nan when the row is empty
NpStd(row) ==
    <<Len(row) * SeqSumSq(row) - SeqSum(row) * SeqSum(row), Len(row) * Len(row)>>

\* the mutation of NpMeanAxis1 to axis=0: one value per column
NpMeanAxis0(A) ==
    IF A = <<>> THEN <<>>
    ELSE [c \in 1..Len(A[1]) |-> NpMean([r \in 1..Len(A) |-> A[r][c]])]

\* np.mean(A, axis=1): one value per row of the 2-d array A
NpMeanAxis1(A) == [r \in 1..Len(A) |-> NpMean(A[r])]

\* np.std(A, axis=1): one value per row of the 2-d array A
NpStdAxis1(A) == [r \in 1..Len(A) |-> NpStd(A[r])]

(***************************************************************************)
(* The bootstrap cells.  M_samples is the literal the cell assigns; the    *)
(* model tries the values of MRange in its place.  The Sample n_events is  *)
(* the array the cell finds in the kernel.                                 *)
(***************************************************************************)
Counts  == 0..MaxCount
Samples == SeqsUpTo(Counts, 0, MaxN)
MRange  == -1..MaxM

\* the mutation of ChoiceMatrices to size=(N, M)
ChoiceMatricesSwapped(a, M, N) ==
    {[r \in 1..N |-> [c \in 1..M |-> a[idx[r][c]]]] :
        idx \in [1..N -> [1..M -> 1..Len(a)]]}

\* np.random.choice(a, size=(M, N), replace=True): every entry is a[idx] for an
\* index idx drawn uniformly from 0..len(a)-1 (1..Len(a) here)
ChoiceMatrices(a, M, N) ==
    {[r \in 1..M |-> [c \in 1..N |-> a[idx[r][c]]]] :
        idx \in [1..M -> [1..N -> 1..Len(a)]]}

\* np.random.choice(a, size=N, replace=True): one row
ChoiceRows(a, N) == {[c \in 1..N |-> a[idx[c]]] : idx \in [1..N -> 1..Len(a)]}

\* np.ones(shape=(M, N))
NpOnes(M, N) == [r \in 1..M |-> [c \in 1..N |-> 1]]

\* The cell stops with exception e, the kernel left at position at: the
\* assignment in progress does not happen.
Raise(e, at) == /\ err' = e
                /\ pc' = at

(* Vectorised cell, lines 146-151.  A negative dimension makes numpy raise  *)
(* ValueError.  An empty a makes the numpy of the notebook's time raise     *)
(* ValueError ("a must be non-empty"); later releases raise only when       *)
(* samples are taken, and size (M, 0) takes none: both outcomes are kept.   *)
BootstrapResample ==
    /\ pc = "ready"
    /\ \E M \in MRange :
        /\ M_samples' = M
        /\ N_points' = Len(n_events)
        /\ \/ /\ M < 0
              /\ Raise("ValueError", "bs_error")
              /\ UNCHANGED <<bs_np, bs_dtype>>
           \/ /\ Len(n_events) = 0
              /\ Raise("ValueError", "bs_error")
              /\ UNCHANGED <<bs_np, bs_dtype>>
           \/ /\ M >= 0
              /\ bs_np' \in ChoiceMatrices(n_events, M, Len(n_events))
              /\ bs_dtype' = "int64"
              /\ pc' = "bs_mean"
              /\ UNCHANGED err
    /\ UNCHANGED <<n_events, i, sd_mean, sd_std>>
    /\ UNCHANGED <<countVars, paramVars, sdssVars, fftVars>>

\* line 154
BootstrapMean ==
    /\ pc = "bs_mean"
    /\ sd_mean' = NpMeanAxis1(bs_np)
    /\ pc' = "bs_std"
    /\ UNCHANGED <<err, n_events, i, M_samples, N_points, bs_np, bs_dtype, sd_std>>
    /\ UNCHANGED <<countVars, paramVars, sdssVars, fftVars>>

\* line 157
BootstrapStd ==
    /\ pc = "bs_std"
    /\ sd_std' = NpStdAxis1(bs_np)
    /\ pc' = "bs_done"
    /\ UNCHANGED <<err, n_events, i, M_samples, N_points, bs_np, bs_dtype, sd_mean>>
    /\ UNCHANGED <<countVars, paramVars, sdssVars, fftVars>>

(* Explicit loop cell, lines 178-184.  i is the number of iterations the    *)
(* for loop has completed, that is, the value range(M_samples) yields next. *)
\* lines 178-180: np.ones raises ValueError on a negative dimension
LoopAlloc ==
    /\ pc = "ready"
    /\ \E M \in MRange :
        /\ M_samples' = M
        /\ N_points' = Len(n_events)
        /\ \/ /\ M < 0
              /\ Raise("ValueError", "lp_error")
              /\ UNCHANGED <<bs_np, bs_dtype>>
           \/ /\ M >= 0
              /\ bs_np' = NpOnes(M, Len(n_events))
              /\ bs_dtype' = "float64"
              /\ pc' = "loop"
              /\ UNCHANGED err
    /\ i' = 0
    /\ UNCHANGED <<n_events, sd_mean, sd_std>>
    /\ UNCHANGED <<countVars, paramVars, sdssVars, fftVars>>

\* the mutation of LoopRange to range(M_samples - 1)
LoopRangeShort == i < M_samples - 1

\* the values range(M_samples) still has to yield
LoopRange == i < M_samples

\* lines 181-182, one iteration: row i of bs_np is overwritten by a draw, the
\* drawn integers cast to the float64 of the array (exact for counts)
LoopIter ==
    /\ pc = "loop"
    /\ LoopRange
    /\ \/ /\ N_points = 0
          /\ Raise("ValueError", "lp_error")
          /\ UNCHANGED <<bs_np, i>>
       \/ /\ \E row \in ChoiceRows(n_events, N_points) :
                bs_np' = [bs_np EXCEPT ![i + 1] = row]
          /\ i' = i + 1
          /\ UNCHANGED <<pc, err>>
    /\ UNCHANGED <<n_events, M_samples, N_points, bs_dtype, sd_mean, sd_std>>
    /\ UNCHANGED <<countVars, paramVars, sdssVars, fftVars>>

\* range(M_samples) is exhausted: the loop ends
LoopExit ==
    /\ pc = "loop"
    /\ ~LoopRange
    /\ pc' = "lp_mean"
    /\ UNCHANGED <<err, n_events, i, bootVars>>
    /\ UNCHANGED <<countVars, paramVars, sdssVars, fftVars>>

\* line 183
LoopMean ==
    /\ pc = "lp_mean"
    /\ sd_mean' = NpMeanAxis1(bs_np)
    /\ pc' = "lp_std"
    /\ UNCHANGED <<err, n_events, i, M_samples, N_points, bs_np, bs_dtype, sd_std>>
    /\ UNCHANGED <<countVars, paramVars, sdssVars, fftVars>>

\* line 184
LoopStd ==
    /\ pc = "lp_std"
    /\ sd_std' = NpStdAxis1(bs_np)
    /\ pc' = "lp_done"
    /\ UNCHANGED <<err, n_events, i, M_samples, N_points, bs_np, bs_dtype, sd_mean>>
    /\ UNCHANGED <<countVars, paramVars, sdssVars, fftVars>>

(***************************************************************************)
(* Parametric cell, lines 205-210.                                         *)
(***************************************************************************)
\* the mutation of ParamRate that passes N_points for the rate
ParamRateLen == <<Len(n_events), 1>>

\* n_events.mean(), the rate handed to poisson.rvs (line 208)
ParamRate == NpMean(n_events)

\* the values one Poisson draw of rate mu = <<num, den>> can take: 0 alone for
\* mu = 0, every natural (up to MaxDraw here) for mu > 0
PoissonSupport(mu) == IF mu[1] = 0 THEN {0} ELSE 0..MaxDraw

\* the mutation of ParamDraws that resamples the Sample instead
ParamDrawsFromSample(mu, M, N) == ChoiceMatrices(n_events, M, N)

\* poisson.rvs(mu, size=(M, N)): M rows of N independent draws
ParamDraws(mu, M, N) == [1..M -> [1..N -> PoissonSupport(mu)]]

(* Line 205-208.  poisson.rvs raises ValueError ("Domain error in           *)
(* arguments") when the rate fails the distribution's argument check: a nan *)
(* rate (the mean of an empty Sample) always does; the rate 0 does in the   *)
(* scipy releases that require mu > 0 and is accepted (all draws 0) in the  *)
(* releases that allow mu >= 0: both outcomes are kept.  A negative         *)
(* dimension raises ValueError.                                             *)
ParametricResample ==
    /\ pc = "ready"
    /\ \E M \in MRange :
        /\ M_samples' = M
        /\ N_points' = Len(n_events)
        /\ \/ /\ \/ M < 0
                 \/ ParamRate[2] = 0
                 \/ ParamRate[1] = 0
              /\ Raise("ValueError", "p_error")
              /\ UNCHANGED bs_p
           \/ /\ M >= 0
              /\ ParamRate[2] # 0
              /\ bs_p' \in ParamDraws(ParamRate, M, Len(n_events))
              /\ pc' = "p_mean"
              /\ UNCHANGED err
    /\ UNCHANGED <<n_events, i, bs_np, bs_dtype, sd_mean, sd_std, sd_mean_p, sd_std_p>>
    /\ UNCHANGED <<countVars, sdssVars, fftVars>>

\* line 209
ParametricMean ==
    /\ pc = "p_mean"
    /\ sd_mean_p' = NpMeanAxis1(bs_p)
    /\ pc' = "p_std"
    /\ UNCHANGED <<err, n_events, i, bootVars, bs_p, sd_std_p>>
    /\ UNCHANGED <<countVars, sdssVars, fftVars>>

\* line 210
ParametricStd ==
    /\ pc = "p_std"
    /\ sd_std_p' = NpStdAxis1(bs_p)
    /\ pc' = "p_done"
    /\ UNCHANGED <<err, n_events, i, bootVars, bs_p, sd_mean_p>>
    /\ UNCHANGED <<countVars, sdssVars, fftVars>>

InitBoot ==
    /\ pc = "ready"
    /\ err = "none"
    /\ n_events \in Samples
    /\ times = <<>> /\ t_intvls = <<>>
    /\ i = 0
    /\ M_samples = 0 /\ N_points = 0
    /\ bs_np = <<>> /\ bs_dtype = "int64" /\ sd_mean = <<>> /\ sd_std = <<>>
    /\ bs_p = <<>> /\ sd_mean_p = <<>> /\ sd_std_p = <<>>
    /\ df = <<>> /\ filters = <<>> /\ mags = <<>> /\ dmags = <<>>
    /\ lc_file = <<>>
    /\ period = <<1, 1>> /\ foldTimes = <<>> /\ scatter = <<>>
    /\ y = <<>> /\ kpos = 0 /\ y_fft = <<>> /\ y_fit = <<>>

\* One of the three bootstrap cells runs in a kernel that holds n_events.
NextBoot ==
    \/ BootstrapResample
    \/ BootstrapMean
    \/ BootstrapStd
    \/ LoopAlloc
    \/ LoopIter
    \/ LoopExit
    \/ LoopMean
    \/ LoopStd
    \/ ParametricResample
    \/ ParametricMean
    \/ ParametricStd

SpecBoot == InitBoot /\ [][NextBoot]_vars

(***************************************************************************)
(* Photon counting cell, lines 115-123.  times is the array the mask       *)
(* selected.  An edge of np.linspace(lo, hi, NumEdges) is                  *)
(* lo + j * (hi - lo) / (NumEdges - 1); t_intvls keeps the exact numerator *)
(* over the common denominator NumEdges - 1, so a comparison of a time     *)
(* with an edge is a comparison of integers.  The first and the last edge  *)
(* are exactly lo and hi in floating point too.                            *)
(***************************************************************************)
\* the third argument of np.linspace, line 118
NumEdges == 300

RECURSIVE SeqMin(_)
SeqMin(s) == IF Len(s) = 1 THEN s[1]
             ELSE LET m == SeqMin(Tail(s)) IN IF s[1] < m THEN s[1] ELSE m

RECURSIVE SeqMax(_)
SeqMax(s) == IF Len(s) = 1 THEN s[1]
             ELSE LET m == SeqMax(Tail(s)) IN IF s[1] > m THEN s[1] ELSE m

\* np.linspace(lo, hi, num): the numerators of the num edges over num - 1
Linspace(lo, hi, num) == [j \in 1..num |-> (num - 1) * lo + (j - 1) * (hi - lo)]

\* len(times[(times > t_intvls[i]) & (times < t_intvls[i+1])]), line 123;
\* j is the 1-based position of the left edge
CountBetween(ts, edges, j) ==
    Cardinality({x \in DOMAIN ts :
        /\ (NumEdges - 1) * ts[x] > edges[j]
        /\ (NumEdges - 1) * ts[x] < edges[j + 1]})

\* lines 115-121: np.min of an empty array raises ValueError
CountSetup ==
    /\ pc = "count_setup"
    /\ \/ /\ times = <<>>
          /\ Raise("ValueError", "count_error")
          /\ UNCHANGED <<t_intvls, n_events>>
       \/ /\ times # <<>>
          /\ t_intvls' = Linspace(SeqMin(times), SeqMax(times), NumEdges)
          /\ n_events' = <<>>
          /\ pc' = "count_loop"
          /\ UNCHANGED err
    /\ i' = 0
    /\ UNCHANGED <<times, bootVars, paramVars, sdssVars, fftVars>>

\* lines 122-123, one iteration of for i in range(len(t_intvls[0:-1])); i is
\* the number of iterations completed
CountIter ==
    /\ pc = "count_loop"
    /\ i < Len(t_intvls) - 1
    /\ n_events' = Append(n_events, CountBetween(times, t_intvls, i + 1))
    /\ i' = i + 1
    /\ UNCHANGED <<pc, err, times, t_intvls, bootVars, paramVars, sdssVars, fftVars>>

\* the range is exhausted
CountExit ==
    /\ pc = "count_loop"
    /\ ~(i < Len(t_intvls) - 1)
    /\ pc' = "counted"
    /\ UNCHANGED <<err, times, t_intvls, n_events, i>>
    /\ UNCHANGED <<bootVars, paramVars, sdssVars, fftVars>>

InitCount ==
    /\ pc = "count_setup"
    /\ err = "none"
    /\ times \in SeqsUpTo(0..MaxTime, 0, MaxPhotons)
    /\ t_intvls = <<>>
    /\ n_events = <<>>
    /\ i = 0
    /\ M_samples = 0 /\ N_points = 0
    /\ bs_np = <<>> /\ bs_dtype = "int64" /\ sd_mean = <<>> /\ sd_std = <<>>
    /\ bs_p = <<>> /\ sd_mean_p = <<>> /\ sd_std_p = <<>>
    /\ df = <<>> /\ filters = <<>> /\ mags = <<>> /\ dmags = <<>>
    /\ lc_file = <<>>
    /\ period = <<1, 1>> /\ foldTimes = <<>> /\ scatter = <<>>
    /\ y = <<>> /\ kpos = 0 /\ y_fft = <<>> /\ y_fit = <<>>

NextCount == CountSetup \/ CountIter \/ CountExit

SpecCount == InitCount /\ [][NextCount]_vars

(***************************************************************************)
(* SDSS Stripe 82 light-curve cells, lines 321-339.  A row of the file is  *)
(* a record of the four named columns; read_csv gives row r the index      *)
(* label r - 1.  A magnitude is a float <<numerator, denominator>>, nan    *)
(* when the denominator is 0.                                              *)
(***************************************************************************)
Filters == {"u", "g", "r", "i", "z"}

NaN == <<0, 0>>

\* the magnitudes tried: negative (the survey's flag for a bad measurement),
\* zero, positive, missing
MagValues == {<<-1, 1>>, <<0, 1>>, <<1, 1>>, NaN}

\* a row of the file: row r was observed at time r with the error r / 100
FileRow(r, f, m) == [time |-> r, filter |-> f, mag |-> m, mag_err |-> <<r, 100>>]

\* the file of n rows with the filters fs and the magnitudes ms
File(n, fs, ms) == [r \in 1..n |-> FileRow(r, fs[r], ms[r])]

\* the mutation of MagKept to df['mag'] > 0
MagPositive(m) == m[2] # 0 /\ m[1] > 0

\* df['mag'] >= 0, line 322: a comparison with nan is False
MagKept(m) == m[2] # 0 /\ m[1] >= 0

\* line 321: pd.read_csv(..., names=["time","filter","mag","mag_err"])
ReadCsv ==
    /\ pc = "sdss_read"
    /\ df' = [r \in 1..Len(lc_file) |->
                [index |-> r - 1, time |-> lc_file[r].time, filter |-> lc_file[r].filter,
                 mag |-> lc_file[r].mag, mag_err |-> lc_file[r].mag_err]]
    /\ pc' = "sdss_clean"
    /\ UNCHANGED <<err, times, t_intvls, n_events, i, filters, mags, dmags, lc_file>>
    /\ UNCHANGED <<bootVars, paramVars, foldVars, fftVars>>

\* line 322: df = df[df['mag'] >= 0], boolean-mask selection keeps the selected
\* rows in their order, each with its index label
CleanData ==
    /\ pc = "sdss_clean"
    /\ df' = SelectSeq(df, LAMBDA row : MagKept(row.mag))
    /\ pc' = "sdss_columns"
    /\ UNCHANGED <<err, times, t_intvls, n_events, i, filters, mags, dmags, lc_file>>
    /\ UNCHANGED <<bootVars, paramVars, foldVars, fftVars>>

\* lines 334-339: the columns as arrays, by position
ExtractColumns ==
    /\ pc = "sdss_columns"
    /\ times' = [p \in 1..Len(df) |-> df[p].time]
    /\ mags' = [p \in 1..Len(df) |-> df[p].mag]
    /\ dmags' = [p \in 1..Len(df) |-> df[p].mag_err]
    /\ filters' = [p \in 1..Len(df) |-> df[p].filter]
    /\ pc' = "sdss_ready"
    /\ UNCHANGED <<err, t_intvls, n_events, i, df, lc_file>>
    /\ UNCHANGED <<bootVars, paramVars, foldVars, fftVars>>

InitSdss ==
    /\ pc = "sdss_read"
    /\ err = "none"
    /\ \E n \in 0..MaxRows :
          \E fs \in [1..n -> Filters], ms \in [1..n -> MagValues] :
              lc_file = File(n, fs, ms)
    /\ period = <<1, 1>> /\ foldTimes = <<>> /\ scatter = <<>>
    /\ times = <<>> /\ t_intvls = <<>>
    /\ n_events = <<>>
    /\ i = 0
    /\ M_samples = 0 /\ N_points = 0
    /\ bs_np = <<>> /\ bs_dtype = "int64" /\ sd_mean = <<>> /\ sd_std = <<>>
    /\ bs_p = <<>> /\ sd_mean_p = <<>> /\ sd_std_p = <<>>
    /\ df = <<>> /\ filters = <<>> /\ mags = <<>> /\ dmags = <<>>
    /\ y = <<>> /\ kpos = 0 /\ y_fft = <<>> /\ y_fit = <<>>

NextSdss == ReadCsv \/ CleanData \/ ExtractColumns

SpecSdss == InitSdss /\ [][NextSdss]_vars

(***************************************************************************)
(* Period fit, phase folding and folded plot, lines 469-498.  times and    *)
(* period are floats, and the quotient of line 482 is rounded: a float is  *)
(* kept as the pair <<numerator, denominator>> of its exact value, the     *)
(* denominator a power of 2, in lowest terms, and an operation rounds its  *)
(* exact result to the nearest float of FloatBits significand bits, ties   *)
(* to even.  The exponent range of float64 is far from the values of a     *)
(* light curve and is left unbounded.                                      *)
(***************************************************************************)
RECURSIVE Canon(_, _)
\* the dyadic rational n / d in lowest terms
Canon(n, d) ==
    IF n = 0 THEN <<0, 1>>
    ELSE IF d > 1 /\ n % 2 = 0 THEN Canon(n \div 2, d \div 2)
    ELSE <<n, d>>

\* the integer nearest to a / d, a tie going to the even one
NearestEven(a, d) ==
    LET q == a \div d
        r == a % d
    IN  IF 2 * r < d THEN q
        ELSE IF 2 * r > d THEN q + 1
        ELSE IF q % 2 = 0 THEN q ELSE q + 1

RECURSIVE Pow2(_)
Pow2(k) == IF k = 0 THEN 1 ELSE 2 * Pow2(k - 1)

RECURSIVE RoundPos(_, _)
\* the float nearest to the rational a / d, a > 0 and d > 0: the significand
\* is scaled into 2^(FloatBits-1) .. 2^FloatBits and rounded to an integer
RoundPos(a, d) ==
    IF a < d * Pow2(FloatBits - 1)
    THEN LET h == RoundPos(2 * a, d) IN Canon(h[1], 2 * h[2])
    ELSE IF a >= d * Pow2(FloatBits)
    THEN LET h == RoundPos(a, 2 * d) IN Canon(2 * h[1], h[2])
    ELSE <<NearestEven(a, d), 1>>

\* the float nearest to the rational n / d, d > 0
Round(n, d) ==
    IF n = 0 THEN <<0, 1>>
    ELSE IF n > 0 THEN RoundPos(n, d)
    ELSE LET h == RoundPos(0 - n, d) IN <<0 - h[1], h[2]>>

\* the mutation of TrueDivide to times * period
TrueMultiply(a, b) == Round(a[1] * b[1], a[2] * b[2])

\* a / b of two floats, b > 0: numpy's true_divide, line 482
TrueDivide(a, b) == Round(a[1] * b[2], a[2] * b[1])

\* x % 1 of a float, line 483: numpy's remainder takes the C fmod, which is
\* exact and has the sign of x, and adds the divisor 1 to a negative result;
\* the sum is rounded
Remainder1(x) ==
    LET f == (IF x[1] < 0 THEN 0 - x[1] ELSE x[1]) % x[2]
    IN  IF f = 0 THEN <<0, 1>>
        ELSE IF x[1] > 0 THEN Canon(f, x[2])
        ELSE Round(x[2] - f, x[2])

RECURSIVE BoolIndex(_, _)
\* arr[mask] of numpy for a boolean mask of the length of arr: the elements
\* at the True positions, in their order
BoolIndex(arr, mask) ==
    IF arr = <<>> THEN <<>>
    ELSE (IF mask[1] THEN <<arr[1]>> ELSE <<>>) \o BoolIndex(Tail(arr), Tail(mask))

\* filters == f
FilterMask(f) == [p \in 1..Len(filters) |-> filters[p] = f]

\* the labels of the five plt.scatter calls in their order, lines 494-498
PlotOrder == <<"u", "g", "r", "i", "z">>

\* ls.optimizer.period_range, line 470
PeriodRange == <<<<2, 10>>, <<9, 10>>>>

\* the periods tried for ls.best_period: the floats 1/4, 1/2, 3/4
PeriodValues == {<<1, 4>>, <<1, 2>>, <<3, 4>>}

\* the best periods the fit can return: inside the period range
Periods ==
    {P \in PeriodValues : /\ P[1] * PeriodRange[1][2] > PeriodRange[1][1] * P[2]
                          /\ P[1] * PeriodRange[2][2] < PeriodRange[2][1] * P[2]}

\* the times of observation tried, in days: two pairs three quarters of a day
\* and three days apart, and a time just before the origin of the time axis
LcTimes == {<<3, 8>>, <<1, 1>>, <<9, 8>>, <<4, 1>>, <<-1, 64>>}

\* the cleaned table of the rows observed at ts in the filters fs: row p has
\* the magnitude p and the error p / 100
LcTable(ts, fs) ==
    [p \in 1..Len(ts) |-> [index |-> p - 1, time |-> ts[p], filter |-> fs[p],
                           mag |-> <<p, 1>>, mag_err |-> <<p, 100>>]]

\* lines 469-473: the multiband Lomb-Scargle fit is the library's; its best
\* period is one of the periods of the range
FitPeriod ==
    /\ pc = "sdss_ready"
    /\ period' \in Periods
    /\ pc' = "fold_divide"
    /\ UNCHANGED <<err, times, t_intvls, n_events, i, df, filters, mags, dmags,
                   lc_file, foldTimes, scatter>>
    /\ UNCHANGED <<bootVars, paramVars, fftVars>>

\* line 482: foldTimes = times / period, elementwise
FoldDivide ==
    /\ pc = "fold_divide"
    /\ foldTimes' = [p \in 1..Len(times) |-> TrueDivide(times[p], period)]
    /\ pc' = "fold_mod"
    /\ UNCHANGED <<err, times, t_intvls, n_events, i, df, filters, mags, dmags,
                   lc_file, period, scatter>>
    /\ UNCHANGED <<bootVars, paramVars, fftVars>>

\* line 483: foldTimes = foldTimes % 1, elementwise
FoldMod ==
    /\ pc = "fold_mod"
    /\ foldTimes' = [p \in 1..Len(foldTimes) |-> Remainder1(foldTimes[p])]
    /\ pc' = "fold_plot"
    /\ UNCHANGED <<err, times, t_intvls, n_events, i, df, filters, mags, dmags,
                   lc_file, period, scatter>>
    /\ UNCHANGED <<bootVars, paramVars, fftVars>>

\* lines 494-498: one plt.scatter call per filter, each of the phases and the
\* magnitudes the mask filters == label selects
PlotFolded ==
    /\ pc = "fold_plot"
    /\ scatter' = [c \in 1..Len(PlotOrder) |->
                      [label |-> PlotOrder[c],
                       x |-> BoolIndex(foldTimes, FilterMask(PlotOrder[c])),
                       y |-> BoolIndex(mags, FilterMask(PlotOrder[c]))]]
    /\ pc' = "fold_plotted"
    /\ UNCHANGED <<err, times, t_intvls, n_events, i, df, filters, mags, dmags,
                   lc_file, period, foldTimes>>
    /\ UNCHANGED <<bootVars, paramVars, fftVars>>

\* the kernel after the column cell of lines 334-339, for a light curve the
\* period fit accepts
InitFold ==
    /\ pc = "sdss_ready"
    /\ err = "none"
    /\ \E n \in 1..MaxFold :
          \E ts \in [1..n -> LcTimes], fs \in [1..n -> Filters] :
              /\ df = LcTable(ts, fs)
              /\ lc_file = [p \in 1..n |->
                               [time |-> ts[p], filter |-> fs[p],
                                mag |-> <<p, 1>>, mag_err |-> <<p, 100>>]]
              /\ times = ts
              /\ filters = fs
              /\ mags = [p \in 1..n |-> <<p, 1>>]
              /\ dmags = [p \in 1..n |-> <<p, 100>>]
    /\ period = <<1, 1>> /\ foldTimes = <<>> /\ scatter = <<>>
    /\ t_intvls = <<>>
    /\ n_events = <<>>
    /\ i = 0
    /\ M_samples = 0 /\ N_points = 0
    /\ bs_np = <<>> /\ bs_dtype = "int64" /\ sd_mean = <<>> /\ sd_std = <<>>
    /\ bs_p = <<>> /\ sd_mean_p = <<>> /\ sd_std_p = <<>>
    /\ y = <<>> /\ kpos = 0 /\ y_fft = <<>> /\ y_fit = <<>>

NextFold == FitPeriod \/ FoldDivide \/ FoldMod \/ PlotFolded

SpecFold == InitFold /\ [][NextFold]_vars

(***************************************************************************)
(* Truncated Fourier fit, lines 51-60.  The transform of a template y of   *)
(* n samples has the coefficients Y[m] = sum_j y[j] * w^(m*j), w a         *)
(* primitive n-th root of unity.  A coefficient is kept exact as the       *)
(* vector of its integer weights on the powers w^0 .. w^(n-1); the zero    *)
(* the truncation assigns is the zero vector.                              *)
(***************************************************************************)
\* line 51
kvals == <<1, 3, 8>>

RECURSIVE SumOver(_, _)
\* the sum of f[x] over the finite set S
SumOver(f, S) ==
    IF S = {} THEN 0
    ELSE LET x == CHOOSE z \in S : TRUE IN f[x] + SumOver(f, S \ {x})

\* coefficient m (0-based) of np.fft.fft(yy)
Coef(yy, m) ==
    LET n == Len(yy) IN
    [e \in 0..(n - 1) |-> SumOver([j \in 0..(n - 1) |-> yy[j + 1]],
                                   {j \in 0..(n - 1) : (m * j) % n = e})]

\* np.fft.fft(yy), line 58
NpFFT(yy) == [m \in 1..Len(yy) |-> Coef(yy, m - 1)]

\* the complex 0 assigned by line 59
ZeroCoef(n) == [e \in 0..(n - 1) |-> 0]

\* a slice bound of Python for a sequence of length n: a negative bound counts
\* from the end, and a bound outside the sequence is clipped
SliceBound(b, n) ==
    IF b < 0 THEN (IF b + n < 0 THEN 0 ELSE b + n)
    ELSE (IF b > n THEN n ELSE b)

\* the 0-based positions the slice [start:stop] selects in a sequence of length n
SliceIndices(start, stop, n) ==
    {m \in 0..(n - 1) : m >= SliceBound(start, n) /\ m < SliceBound(stop, n)}

\* the mutation of TruncatedSlice to y_fft[k:-k]
TruncatedSliceFromK(k, n) == SliceIndices(k, 0 - k, n)

\* the positions of y_fft[k + 1:-k], line 59
TruncatedSlice(k, n) == SliceIndices(k + 1, 0 - k, n)

\* line 58, the first statement of the iteration for kvals[kpos]
FitTransform ==
    /\ pc = "fit_fft"
    /\ y_fft' = NpFFT(y)
    /\ pc' = "fit_truncate"
    /\ UNCHANGED <<err, times, t_intvls, n_events, i, y, kpos, y_fit>>
    /\ UNCHANGED <<bootVars, paramVars, sdssVars>>

\* line 59
FitTruncate ==
    /\ pc = "fit_truncate"
    /\ y_fft' = [m \in 1..Len(y_fft) |->
                    IF (m - 1) \in TruncatedSlice(kvals[kpos], Len(y_fft))
                    THEN ZeroCoef(Len(y_fft)) ELSE y_fft[m]]
    /\ pc' = "fit_ifft"
    /\ UNCHANGED <<err, times, t_intvls, n_events, i, y, kpos, y_fit>>
    /\ UNCHANGED <<bootVars, paramVars, sdssVars>>

\* line 60: y_fit is the real part of the inverse transform of y_fft.  The
\* inverse transform is a bijection; y_fit is kept as the spectrum it is the
\* inverse transform of.  The plotting of lines 62-85 reads y_fit only.
FitInverse ==
    /\ pc = "fit_ifft"
    /\ y_fit' = [part |-> "real", ifft_of |-> y_fft]
    /\ pc' = "fit_plotted"
    /\ UNCHANGED <<err, times, t_intvls, n_events, i, y, kpos, y_fft>>
    /\ UNCHANGED <<bootVars, paramVars, sdssVars>>

\* line 54: the for loop takes the next k, or ends after the last
FitNext ==
    /\ pc = "fit_plotted"
    /\ \/ /\ kpos < Len(kvals)
          /\ kpos' = kpos + 1
          /\ pc' = "fit_fft"
       \/ /\ kpos = Len(kvals)
          /\ pc' = "fit_done"
          /\ UNCHANGED kpos
    /\ UNCHANGED <<err, times, t_intvls, n_events, i, y, y_fft, y_fit>>
    /\ UNCHANGED <<bootVars, paramVars, sdssVars>>

\* the templates tried: n samples with the values 0 .. 2 in one of three shapes
Templates ==
    {[j \in 1..n |-> ((a * j) + ((j * j) % 2)) % 3] : n \in 1..MaxTemplate, a \in 0..2}

InitFit ==
    /\ pc = "fit_fft"
    /\ err = "none"
    /\ y \in Templates
    /\ kpos = 1
    /\ y_fft = <<>>
    /\ y_fit = [part |-> "real", ifft_of |-> <<>>]
    /\ times = <<>> /\ t_intvls = <<>>
    /\ n_events = <<>>
    /\ i = 0
    /\ M_samples = 0 /\ N_points = 0
    /\ bs_np = <<>> /\ bs_dtype = "int64" /\ sd_mean = <<>> /\ sd_std = <<>>
    /\ bs_p = <<>> /\ sd_mean_p = <<>> /\ sd_std_p = <<>>
    /\ df = <<>> /\ filters = <<>> /\ mags = <<>> /\ dmags = <<>>
    /\ lc_file = <<>>
    /\ period = <<1, 1>> /\ foldTimes = <<>> /\ scatter = <<>>

NextFit == FitTransform \/ FitTruncate \/ FitInverse \/ FitNext

SpecFit == InitFit /\ [][NextFit]_vars

(***************************************************************************)
(* Properties.                                                             *)
(***************************************************************************)
\* A is an array of M rows of N values each
HasShape(A, M, N) == Len(A) = M /\ \A r \in 1..Len(A) : Len(A[r]) = N

\* every value of the array A occurs in the sequence S
ValuesFrom(A, S) == \A r \in 1..Len(A) : \A c \in 1..Len(A[r]) : A[r][c] \in Range(S)

\* C1: for a non-empty Sample and a positive M the vectorised resample step
\* does not fail, and its ResampleSet has exactly M rows, each of the length
\* of the Sample, each value a value of the Sample.
C1_ResampleShape ==
    (M_samples > 0 /\ Len(n_events) > 0) =>
        /\ pc # "bs_error"
        /\ pc \in {"bs_mean", "bs_std", "bs_done"} =>
              /\ HasShape(bs_np, M_samples, Len(n_events))
              /\ ValuesFrom(bs_np, n_events)

C1_Witness ==
    /\ pc = "bs_done"
    /\ M_samples = 2
    /\ Len(n_events) = 2
    /\ bs_np[1] # bs_np[2]
    /\ bs_np[1][1] # bs_np[1][2]

\* C3: an empty Sample or a non-positive M or N makes the vectorised
\* bootstrap cell fail with an error and leave no ResampleSet and no
\* StatisticDistribution.
C3_InvalidInputFails ==
    (pc \in {"bs_mean", "bs_std", "bs_done", "bs_error"}
        /\ (Len(n_events) = 0 \/ M_samples <= 0 \/ N_points <= 0)) =>
        /\ pc = "bs_error"
        /\ err # "none"
        /\ bs_np = <<>> /\ sd_mean = <<>> /\ sd_std = <<>>

\* the statistics of an array: one mean and one standard deviation per row,
\* each computed from that row alone
RowStatistics(A, means, stds) ==
    /\ Len(means) = Len(A)
    /\ Len(stds) = Len(A)
    /\ \A r \in 1..Len(A) :
          /\ means[r] = <<SeqSum(A[r]), Len(A[r])>>
          /\ stds[r] = <<Len(A[r]) * SeqSumSq(A[r]) - SeqSum(A[r]) * SeqSum(A[r]),
                         Len(A[r]) * Len(A[r])>>

\* C4: when a bootstrap cell has applied the mean and the standard deviation,
\* there are exactly M values of each, the r-th computed from row r alone, and
\* the statements that apply them leave the ResampleSet as it was.
C4_ApplyStatistic ==
    [][/\ pc \in {"bs_mean", "bs_std", "lp_mean", "lp_std", "p_mean", "p_std"} =>
            (bs_np' = bs_np /\ bs_p' = bs_p)
       /\ pc' \in {"bs_done", "lp_done"} =>
            (Len(sd_mean') = M_samples' /\ RowStatistics(bs_np', sd_mean', sd_std'))
       /\ pc' = "p_done" =>
            (Len(sd_mean_p') = M_samples' /\ RowStatistics(bs_p', sd_mean_p', sd_std_p'))]_vars

C4_Witness ==
    /\ pc = "bs_done"
    /\ M_samples = 2
    /\ Len(n_events) = 2
    /\ sd_mean[1] # sd_mean[2]
    /\ sd_std[1] # sd_std[2]

\* C5: the parametric ResampleSet has exactly M rows of the length of the
\* Sample, every value a natural number; and with a positive rate every value
\* the draw can take may appear, whether or not it occurs in the Sample.
C5_ParametricShape ==
    /\ pc \in {"p_mean", "p_std", "p_done"} =>
          /\ HasShape(bs_p, M_samples, Len(n_events))
          /\ \A r \in 1..Len(bs_p) : \A c \in 1..Len(bs_p[r]) : bs_p[r][c] \in Nat
    /\ (pc = "ready" /\ Len(n_events) > 0 /\ SeqSum(n_events) > 0) =>
          \A v \in 0..MaxDraw :
              ENABLED (ParametricResample /\ M_samples' > 0 /\ bs_p'[1][1] = v)

C5_Witness ==
    /\ pc = "p_done"
    /\ M_samples = 2
    /\ Len(n_events) = 2
    /\ \E r \in 1..Len(bs_p) : \E c \in 1..Len(bs_p[r]) : bs_p[r][c] \notin Range(n_events)

\* C6: with a Sample of zeros only (rate 0) the parametric resample step ends
\* either in an error with no ResampleSet, or with M rows of the length of the
\* Sample whose values are all 0.
C6_ZeroRate ==
    (pc \in {"p_mean", "p_std", "p_done", "p_error"}
        /\ Len(n_events) > 0 /\ SeqSum(n_events) = 0) =>
        \/ /\ pc = "p_error"
           /\ err = "ValueError"
           /\ bs_p = <<>>
        \/ /\ pc # "p_error"
           /\ HasShape(bs_p, M_samples, Len(n_events))
           /\ \A r \in 1..Len(bs_p) : \A c \in 1..Len(bs_p[r]) : bs_p[r][c] = 0

C6_Witness ==
    /\ pc = "p_done"
    /\ Len(n_events) = 2
    /\ SeqSum(n_events) = 0
    /\ M_samples = 2

\* a float <<numerator, denominator>> compared with 0
IsNegative(m) == m[2] # 0 /\ m[1] < 0
IsZero(m)     == m[2] # 0 /\ m[1] = 0
IsPositive(m) == m[2] # 0 /\ m[1] > 0

\* the table holds exactly the rows of the file at the positions Keep, in the
\* order of the file
HoldsRows(Keep) ==
    /\ Len(df) = Cardinality(Keep)
    /\ \A p \in 1..Len(df) :
          /\ df[p].index + 1 \in Keep
          /\ df[p].time = lc_file[df[p].index + 1].time
          /\ df[p].filter = lc_file[df[p].index + 1].filter
          /\ df[p].mag = lc_file[df[p].index + 1].mag
          /\ df[p].mag_err = lc_file[df[p].index + 1].mag_err
    /\ \A p, q \in 1..Len(df) : p < q => df[p].index < df[q].index

\* the four arrays have the length of the table and hold its columns row by row
ColumnsAligned ==
    /\ Len(times) = Len(df) /\ Len(filters) = Len(df)
    /\ Len(mags) = Len(df) /\ Len(dmags) = Len(df)
    /\ \A p \in 1..Len(df) :
          /\ times[p] = df[p].time /\ filters[p] = df[p].filter
          /\ mags[p] = df[p].mag /\ dmags[p] = df[p].mag_err

\* C7 as stated: after the cleaning no row has mag <= 0, every row with
\* mag > 0 is kept in its original order, and the arrays are row-aligned.
C7_DropsNonPositive ==
    /\ pc \in {"sdss_columns", "sdss_ready"} =>
          /\ \A p \in 1..Len(df) : ~(IsNegative(df[p].mag) \/ IsZero(df[p].mag))
          /\ HoldsRows({r \in 1..Len(lc_file) : IsPositive(lc_file[r].mag)})
    /\ pc = "sdss_ready" => ColumnsAligned

\* C7 amended: after the cleaning no row has mag < 0, exactly the rows with
\* mag >= 0 (a magnitude of 0 included) are kept in their original order, and
\* the arrays are row-aligned.
C7_DropsNegative ==
    /\ pc \in {"sdss_columns", "sdss_ready"} =>
          /\ \A p \in 1..Len(df) : ~IsNegative(df[p].mag)
          /\ HoldsRows({r \in 1..Len(lc_file) :
                            IsPositive(lc_file[r].mag) \/ IsZero(lc_file[r].mag)})
    /\ pc = "sdss_ready" => ColumnsAligned

C7_Witness ==
    /\ pc = "sdss_ready"
    /\ Len(lc_file) = 3
    /\ Len(df) = 2
    /\ IsNegative(lc_file[1].mag)
    /\ IsZero(mags[1])
    /\ IsPositive(mags[2])

\* C8: the explicit loop ends after exactly M iterations; at its end the
\* matrix has the shape and the membership of the vectorised ResampleSet (C1):
\* M rows of the length of the Sample, every row overwritten by values of the
\* Sample, so that a 1 remains only where a 1 of the Sample was drawn.
C8_LoopEquivalent ==
    /\ pc = "loop" => (i <= M_samples /\ HasShape(bs_np, M_samples, N_points))
    /\ pc \in {"lp_mean", "lp_std", "lp_done"} =>
          /\ i = M_samples
          /\ HasShape(bs_np, M_samples, Len(n_events))
          /\ ValuesFrom(bs_np, n_events)

C8_Witness ==
    /\ pc = "lp_done"
    /\ M_samples = 2
    /\ Len(n_events) = 2
    /\ 1 \notin Range(n_events)
    /\ bs_np[1] # bs_np[2]

\* C9: the counting loop leaves NumEdges - 1 counts, every arrival time is
\* counted in exactly one interval, and the counts sum to the number of
\* arrival times.
C9_CountsPartition ==
    pc = "counted" =>
        /\ Len(n_events) = NumEdges - 1
        /\ \A x \in DOMAIN times :
              Cardinality({j \in 1..(NumEdges - 1) :
                  /\ (NumEdges - 1) * times[x] > t_intvls[j]
                  /\ (NumEdges - 1) * times[x] < t_intvls[j + 1]}) = 1
        /\ SeqSum(n_events) = Len(times)

\* the coefficient positions (0-based) of a transform of n samples that the
\* fit with k modes keeps
KeptModes(k, n) == {m \in 0..(n - 1) : m <= k \/ m >= n - k}

\* C10: in every iteration of the fit, once truncated, y_fft holds the
\* coefficients of the transform of the template itself at the positions
\* 0..k and n-k..n-1 and zero everywhere else; these positions are closed
\* under m -> (n - m) mod n and are 2k+1 when 2k+1 <= n.
C10_TruncatedFit ==
    pc \in {"fit_ifft", "fit_plotted", "fit_done"} =>
        LET n == Len(y)
            k == kvals[kpos]
        IN  /\ Len(y_fft) = n
            /\ \A m \in 0..(n - 1) :
                  y_fft[m + 1] = IF m \in KeptModes(k, n) THEN Coef(y, m) ELSE ZeroCoef(n)
            /\ \A m \in 0..(n - 1) :
                  y_fft[m + 1] # ZeroCoef(n) => y_fft[((n - m) % n) + 1] # ZeroCoef(n)
            /\ \A m \in KeptModes(k, n) : ((n - m) % n) \in KeptModes(k, n)
            /\ (2 * k + 1 <= n) => Cardinality(KeptModes(k, n)) = 2 * k + 1
            /\ pc \in {"fit_plotted", "fit_done"} => y_fit.ifft_of = y_fft

C10_Witness ==
    /\ pc = "fit_plotted"
    /\ kpos = 3
    /\ Len(y) >= 2 * kvals[3] + 2
    /\ y_fft[kvals[3] + 1] # ZeroCoef(Len(y))
    /\ y_fft[kvals[3] + 2] = ZeroCoef(Len(y))
    /\ Coef(y, kvals[3] + 1) # ZeroCoef(Len(y))

RECURSIVE Gcd(_, _)
Gcd(a, b) == IF b = 0 THEN a ELSE Gcd(b, a % b)

RECURSIVE OddPart(_)
OddPart(n) == IF n % 2 = 0 THEN OddPart(n \div 2) ELSE n

Abs(n) == IF n < 0 THEN 0 - n ELSE n

\* the rational n / d, d > 0, is a float: in lowest terms its denominator is
\* a power of 2 and its numerator has at most FloatBits significant bits
IsFloat(n, d) ==
    \/ n = 0
    \/ LET g == Gcd(Abs(n), d)
       IN  /\ OddPart(d \div g) = 1
           /\ OddPart(Abs(n) \div g) < Pow2(FloatBits)

\* the exact quotient t / P as <<numerator, denominator>>, P > 0
Quotient(t, P) == <<t[1] * P[2], t[2] * P[1]>>

\* the division of line 482 rounds nothing away for the timestamp t
QuotientExact(t, P) == IsFloat(Quotient(t, P)[1], Quotient(t, P)[2])

\* t1 - t2 is an integer multiple of P
MultipleApart(t1, t2, P) ==
    ((t1[1] * t2[2] - t2[1] * t1[2]) * P[2]) % (t1[2] * t2[2] * P[1]) = 0

\* the phase ph lies in the half-open range [0, 1)
InUnit(ph) == ph[1] >= 0 /\ ph[1] < ph[2]

\* the phase ph is the exact fractional part of t / P
ExactPhase(ph, t, P) ==
    LET q == Quotient(t, P) IN ph[1] * q[2] = (q[1] % q[2]) * ph[2]

\* ph folded again with period 1, by lines 482-483
Refold(ph) == Remainder1(TrueDivide(ph, <<1, 1>>))

\* the rows of the light curve observed in filter f
RowsOf(f) == {p \in 1..Len(filters) : filters[p] = f}

\* the q-th row, in row order, of the rows observed in filter f
NthRowOf(f, q) ==
    CHOOSE p \in RowsOf(f) : Cardinality({r \in RowsOf(f) : r < p}) = q - 1

\* foldTimes has a phase for each row of times, in row order
FoldedByRow ==
    /\ Len(foldTimes) = Len(times)
    /\ \A p \in 1..Len(times) :
          foldTimes[p] = Remainder1(TrueDivide(times[p], period))

\* each scatter call draws, for the rows of its filter in row order, the
\* phase of the row against the magnitude of the same row
ScatterAligned ==
    pc = "fold_plotted" =>
        /\ Len(scatter) = Len(PlotOrder)
        /\ \A c \in 1..Len(PlotOrder) :
              LET f == PlotOrder[c]
                  n == Cardinality(RowsOf(f))
              IN  /\ scatter[c].label = f
                  /\ Len(scatter[c].x) = n
                  /\ Len(scatter[c].y) = n
                  /\ \A q \in 1..n :
                        /\ scatter[c].x[q] = foldTimes[NthRowOf(f, q)]
                        /\ scatter[c].y[q] = mags[NthRowOf(f, q)]

\* C11, as stated: after folding with the positive period, every phase lies
\* in [0, 1); two timestamps an integer multiple of the period apart have
\* the same phase; folding a phase again with period 1 leaves it unchanged;
\* foldTimes has the length and the row order of times, and every scatter
\* call pairs the phase and the magnitude of the same rows.
C11_PhaseFold ==
    pc \in {"fold_plot", "fold_plotted"} =>
        /\ period[1] > 0
        /\ FoldedByRow
        /\ \A p \in 1..Len(times) :
              /\ InUnit(foldTimes[p])
              /\ Refold(foldTimes[p]) = foldTimes[p]
        /\ \A p, q \in 1..Len(times) :
              MultipleApart(times[p], times[q], period) => foldTimes[p] = foldTimes[q]
        /\ ScatterAligned

\* C11, amended: after folding with the positive period, the phase of every
\* non-negative timestamp lies in [0, 1) and folding it again with period 1
\* leaves it unchanged; where the quotient t / period is computed without
\* rounding, the phase of a non-negative timestamp is the exact fractional
\* part of the quotient, and two timestamps an integer multiple of the
\* period apart whose quotients are both computed without rounding have the
\* same phase; foldTimes has the length and the row order of times, and
\* every scatter call pairs the phase and the magnitude of the same rows.
C11_PhaseFoldRounded ==
    pc \in {"fold_plot", "fold_plotted"} =>
        /\ period[1] > 0
        /\ FoldedByRow
        /\ \A p \in 1..Len(times) :
              times[p][1] >= 0 =>
                  /\ InUnit(foldTimes[p])
                  /\ Refold(foldTimes[p]) = foldTimes[p]
                  /\ QuotientExact(times[p], period) =>
                        ExactPhase(foldTimes[p], times[p], period)
        /\ \A p, q \in 1..Len(times) :
              (/\ MultipleApart(times[p], times[q], period)
               /\ QuotientExact(times[p], period)
               /\ QuotientExact(times[q], period)) => foldTimes[p] = foldTimes[q]
        /\ ScatterAligned

\* two rows of different filters and different times, a multiple of the
\* period apart, are folded to the same phase, not 0, and plotted
C11_Witness ==
    /\ pc = "fold_plotted"
    /\ \E p, q \in 1..Len(times) :
          /\ times[p] # times[q]
          /\ times[p][1] > 0 /\ times[q][1] > 0
          /\ filters[p] # filters[q]
          /\ MultipleApart(times[p], times[q], period)
          /\ QuotientExact(times[p], period)
          /\ QuotientExact(times[q], period)
          /\ foldTimes[p] = foldTimes[q]
          /\ foldTimes[p][1] > 0
          /\ \E c \in 1..Len(scatter) :
                /\ scatter[c].label = filters[p]
                /\ scatter[c].x = <<foldTimes[p]>>
                /\ scatter[c].y = <<mags[p]>>

=============================================================================
